---------------------------- MODULE Spec2Model ----------------------------
(***************************************************************************)
(* A model of the hex-array-to-BMP converter of                            *)
(* src/src/components/HexToImageConverter.tsx: the RGB565 expansion, the   *)
(* BMP encoder, the dimension resolver and the text extraction of          *)
(* parseHexFile as operators computed the way the code computes them, and  *)
(* the React component (its useState fields and its event handlers and     *)
(* async continuations) as a state machine.                                *)
(*                                                                         *)
(* Text is a TLA+ string; TLC's Sequences operators Len, SubSeq and \o     *)
(* work on strings, so the regular expressions of the code are matched     *)
(* character by character on the same text the code would read.            *)
(***************************************************************************)
EXTENDS Integers, Sequences, FiniteSets, TLC

VARIABLES
    \* ---- rgb565ToRgb applied to one value
    rgb565,         \* the 16-bit input
    rgb,            \* Null, or the <<r8, g8, b8>> returned
    \* ---- the dimension resolution of parseHexFile applied to one count
    totalPixels,    \* hexValues.length
    dimension,      \* Null, or [width, height] as returned
    chosen,         \* Null, or which candidate produced the result
    \* ---- createBMP applied to one ImageData
    image,          \* the ImageData handed to createBMP
    bmp,            \* Null, or the Uint8Array returned (a sequence of bytes)
    cursor,         \* Null, or the value of `offset` when the loops end
    \* ---- parseHexFile applied to one text
    pieces,         \* the fragments the text was put together from
    content,        \* the text of the file
    parsed,         \* Null, or the outcome: an ImageData or a thrown Error
    \* ---- the component
    selectedFile,   \* useState: Null or a file
    imageData,      \* useState: Null or an ImageData
    isProcessing,   \* useState: BOOLEAN
    error,          \* useState: a string, "" when there is none
    previewUrl,     \* useState: "" or what the preview shows
    bmpData,        \* useState: Null or a byte sequence
    task,           \* the conversion (processFile, loadExampleFile) in flight
    exampleFetch,   \* the number of fetches of downloadExampleFile in flight
    parseResults,   \* parseHexFile of each text of the model, computed once
    bmpResults,     \* createBMP of each image parsed, computed once
    shown,          \* history: the conversion that set imageData
    built,          \* history: the conversion that set bmpData
    attempts,       \* number of conversions started
    downloaded      \* history: what the last downloadBMP click delivered

colorVars == <<rgb565, rgb>>
dimVars   == <<totalPixels, dimension, chosen>>
bmpVars   == <<image, bmp, cursor>>
parseVars == <<pieces, content, parsed>>
tables    == <<parseResults, bmpResults>>
uiVars    == <<selectedFile, imageData, isProcessing, error, previewUrl,
               bmpData, task, exampleFetch, shown, built, attempts,
               downloaded, tables>>
vars      == <<colorVars, dimVars, bmpVars, parseVars, uiVars>>

\* The idle value of a variable that holds a record or a sequence (null in
\* the code), of one that holds a number, and of one that holds a string.
Null == <<>>

NoNumber == 0 - 1

NoText == ""

(***************************************************************************)
(* Bit operations of JavaScript on the small non-negative numbers the code *)
(* applies them to.                                                        *)
(***************************************************************************)
Pow2(n) == 2 ^ n

Shr(v, n) == v \div Pow2(n)

Shl(v, n) == v * Pow2(n)

RECURSIVE BitAnd(_, _)
BitAnd(a, b) ==
    IF a = 0 \/ b = 0 THEN 0
    ELSE (IF a % 2 = 1 /\ b % 2 = 1 THEN 1 ELSE 0)
         + 2 * BitAnd(a \div 2, b \div 2)

RECURSIVE BitOr(_, _)
BitOr(a, b) ==
    IF a = 0 THEN b
    ELSE IF b = 0 THEN a
    ELSE (IF a % 2 = 1 \/ b % 2 = 1 THEN 1 ELSE 0)
         + 2 * BitOr(a \div 2, b \div 2)

(***************************************************************************)
(* rgb565ToRgb                                                             *)
(***************************************************************************)
\* The expansion without the replicated high bits: a plain left shift.
rgb565ToRgbShiftOnly(v) ==
    <<Shl(BitAnd(Shr(v, 11), 31), 3),
      Shl(BitAnd(Shr(v, 5), 63), 2),
      Shl(BitAnd(v, 31), 3)>>

rgb565ToRgb(v) ==
    LET r  == BitAnd(Shr(v, 11), 31)
        g  == BitAnd(Shr(v, 5), 63)
        b  == BitAnd(v, 31)
        r8 == BitOr(Shl(r, 3), Shr(r, 2))
        g8 == BitOr(Shl(g, 2), Shr(g, 4))
        b8 == BitOr(Shl(b, 3), Shr(b, 2))
    IN  <<r8, g8, b8>>

\* Every value a parsed hex token can have (hexVal <= 0xFFFF).
MaxRgb565 == 65535

InitColor ==
    /\ rgb565 \in 0..MaxRgb565
    /\ rgb = Null

Convert ==
    /\ rgb = Null
    /\ rgb565 # NoNumber
    /\ rgb' = rgb565ToRgb(rgb565)
    /\ UNCHANGED <<rgb565, dimVars, bmpVars, parseVars, uiVars>>


(***************************************************************************)
(* The dimension resolution of parseHexFile (lines 102-139).               *)
(*                                                                         *)
(* A candidate { w, h } is kept with w and h already floored: the code     *)
(* reads a candidate only through Math.floor (lines 129, 132, 133).  For   *)
(* the counts of this model Math.floor(Math.sqrt(n)) is the integer square *)
(* root and Math.ceil(Math.sqrt(n)) the least r with r * r >= n (the       *)
(* double-precision square root is exact on perfect squares and cannot     *)
(* reach the next integer below 2^52).  `kind` records where a candidate   *)
(* came from.                                                              *)
(***************************************************************************)
FloorSqrt(n) == CHOOSE r \in 0..n : r * r <= n /\ (r + 1) * (r + 1) > n

CeilSqrt(n) == CHOOSE r \in 0..n : r * r >= n /\ (r = 0 \/ (r - 1) * (r - 1) < n)

CeilDiv(a, b) == (a + b - 1) \div b

commonResolutions ==
    << [w |-> 128, h |-> 128], [w |-> 64,  h |-> 64],
       [w |-> 32,  h |-> 32],  [w |-> 16,  h |-> 16],
       [w |-> 320, h |-> 240], [w |-> 240, h |-> 320],
       [w |-> 128, h |-> 160], [w |-> 160, h |-> 128],
       [w |-> 128, h |-> 64],  [w |-> 64,  h |-> 128],
       [w |-> 96,  h |-> 64],  [w |-> 64,  h |-> 96] >>

\* The generic shapes with the single column listed before the single row.
genericDimensionsColumnFirst(n) ==
    << [w |-> FloorSqrt(n), h |-> FloorSqrt(n), kind |-> "square"],
       [w |-> 1, h |-> n, kind |-> "column"],
       [w |-> n, h |-> 1, kind |-> "row"] >>

\* possibleDimensions as first written (lines 108-112).
genericDimensions(n) ==
    << [w |-> FloorSqrt(n), h |-> FloorSqrt(n), kind |-> "square"],
       [w |-> n, h |-> 1, kind |-> "row"],
       [w |-> 1, h |-> n, kind |-> "column"] >>

\* commonResolutions.forEach(res => { if (...) possibleDimensions.unshift(res) })
\* from entry i on: each matching entry is put in FRONT of the list so far.
RECURSIVE unshiftCommon(_, _, _)
unshiftCommon(dims, i, n) ==
    IF i > Len(commonResolutions) THEN dims
    ELSE LET res == commonResolutions[i]
         IN  unshiftCommon(
                 IF res.w * res.h = n
                 THEN <<[w |-> res.w, h |-> res.h, kind |-> "table"]>> \o dims
                 ELSE dims,
                 i + 1, n)

possibleDimensions(n) == unshiftCommon(genericDimensions(n), 1, n)

\* possibleDimensions.find(dim => floor(dim.w) * floor(dim.h) === totalPixels):
\* the index of the first such candidate, 0 when there is none.
findIndex(dims, n) ==
    IF \E i \in 1..Len(dims) : dims[i].w * dims[i].h = n
    THEN CHOOSE i \in 1..Len(dims) :
            /\ dims[i].w * dims[i].h = n
            /\ \A j \in 1..(i - 1) : dims[j].w * dims[j].h # n
    ELSE 0

\* const dimension = possibleDimensions.find(...) || { w: ceil(sqrt), h: ceil(n / ceil(sqrt)) }
pickDimension(n) ==
    LET dims == possibleDimensions(n)
        i    == findIndex(dims, n)
    IN  IF i > 0 THEN dims[i]
        ELSE [w |-> CeilSqrt(n), h |-> CeilDiv(n, CeilSqrt(n)), kind |-> "ceil"]

\* The first candidate taken as it is: no exact-product test, no adjustment.
resolveDimensionsFirstCandidate(n) ==
    LET d == possibleDimensions(n)[1]
    IN  [width |-> d.w, height |-> d.h, kind |-> d.kind]

\* Lines 104-139: the width and height parseHexFile returns for n values.
resolveDimensions(n) ==
    LET d == pickDimension(n)
    IN  IF d.w * d.h # n
        THEN [width |-> n, height |-> 1, kind |-> "forced"]
        ELSE [width |-> d.w, height |-> d.h, kind |-> d.kind]

\* The counts the resolver is run on: 1..MaxPixels and every product of the table.
MaxPixels == 300

TableProducts == {commonResolutions[i].w * commonResolutions[i].h :
                     i \in 1..Len(commonResolutions)}

PixelCounts == (1..MaxPixels) \cup TableProducts

InitResolve ==
    /\ totalPixels \in PixelCounts
    /\ dimension = Null
    /\ chosen = NoText

Resolve ==
    /\ dimension = Null
    /\ totalPixels # NoNumber
    /\ LET r == resolveDimensions(totalPixels)
       IN  /\ dimension' = [width |-> r.width, height |-> r.height]
           /\ chosen' = r.kind
    /\ UNCHANGED <<totalPixels, colorVars, bmpVars, parseVars, uiVars>>


(***************************************************************************)
(* createBMP (lines 162-216).  The buffer is a sequence of bytes, byte k   *)
(* of the file at index k + 1.  The DataView stores of the headers are     *)
(* kept as a list, in the order the code makes them, and applied to the    *)
(* zeroed buffer (a later store wins where two overlap); the bytes stored  *)
(* through uint8Array[offset++] are kept as the sequence of values stored, *)
(* the first of them at offset 54.                                         *)
(***************************************************************************)
\* The n bytes of v, the least significant first.
littleEndian(v, n) == [k \in 1..n |-> Shr(v, 8 * (k - 1)) % 256]

\* view.setUint16(off, v, true)
setUint16(off, v) == [off |-> off, bytes |-> littleEndian(v % Pow2(16), 2)]

\* view.setUint32(off, v, true), for 0 <= v < 2^31 (every size of this model)
setUint32(off, v) == [off |-> off, bytes |-> littleEndian(v, 4)]

\* view.setInt32(off, v, true), for 0 <= v < 2^31: the two's complement of a
\* non-negative number is the number
setInt32(off, v) == [off |-> off, bytes |-> littleEndian(v, 4)]

\* Lines 173-190.
headerStores(w, h, nImage, nFile) ==
    << setUint16(0, 16973),       \* 0x424D, "BM"
       setUint32(2, nFile),       \* File size
       setUint32(6, 0),           \* Reserved
       setUint32(10, 54),         \* Offset to pixel data
       setUint32(14, 40),         \* Header size
       setInt32(18, w),           \* Width
       setInt32(22, h),           \* Height
       setUint16(26, 1),          \* Planes
       setUint16(28, 24),         \* Bits per pixel
       setUint32(30, 0),          \* Compression
       setUint32(34, nImage),     \* Image size
       setInt32(38, 2835),        \* X pixels per meter
       setInt32(42, 2835),        \* Y pixels per meter
       setUint32(46, 0),          \* Colors used
       setUint32(50, 0) >>        \* Important colors

\* The buffer after the stores, made in order; a store reaching past the
\* end of the buffer would throw, and none of createBMP does.
applyStores(buf, stores) ==
    [k \in 1..Len(buf) |->
        LET hits == {i \in 1..Len(stores) :
                        stores[i].off < k /\ k <= stores[i].off + Len(stores[i].bytes)}
        IN  IF hits = {} THEN buf[k]
            ELSE LET i == CHOOSE j \in hits : \A m \in hits : m <= j
                 IN  stores[i].bytes[k - stores[i].off]]

paddingSizeOf(width) == (4 - ((width * 3) % 4)) % 4

rowSizeOf(width) == width * 3 + paddingSizeOf(width)

\* One pixel stored red first: the bytes in R, G, B order.
pixelBytesRgbOrder(data, pixelIndex) ==
    IF pixelIndex < Len(data)
    THEN rgb565ToRgb(data[pixelIndex + 1])
    ELSE <<0, 0, 0>>

\* Lines 196-207: the three bytes stored for one pixel, Blue, Green, Red;
\* black when the data has no such pixel.
pixelBytes(data, pixelIndex) ==
    IF pixelIndex < Len(data)
    THEN LET c == rgb565ToRgb(data[pixelIndex + 1])
         IN  <<c[3], c[2], c[1]>>
    ELSE <<0, 0, 0>>

\* for (let x = 0; x < width; x++) from x on.
RECURSIVE rowBytes(_, _, _, _)
rowBytes(data, width, y, x) ==
    IF x >= width THEN <<>>
    ELSE pixelBytes(data, y * width + x) \o rowBytes(data, width, y, x + 1)

\* for (let p = 0; p < paddingSize; p++) uint8Array[offset++] = 0
paddingBytes(paddingSize) == [p \in 1..paddingSize |-> 0]

\* for (let y = height - 1; y >= 0; y--) from y on.
RECURSIVE rowsBytesFrom(_, _, _)
rowsBytesFrom(data, width, y) ==
    IF y < 0 THEN <<>>
    ELSE rowBytes(data, width, y, 0) \o paddingBytes(paddingSizeOf(width))
         \o rowsBytesFrom(data, width, y - 1)

\* createBMP up to its return: the buffer and the final value of `offset`.
\* A store past the end of a typed array is dropped.
encodeBMP(img) ==
    LET rowSize   == rowSizeOf(img.width)
        imageSize == rowSize * img.height
        fileSize  == 54 + imageSize
        zeroed    == [k \in 1..fileSize |-> 0]
        headed    == applyStores(zeroed,
                         headerStores(img.width, img.height, imageSize, fileSize))
        stored    == rowsBytesFrom(img.data, img.width, img.height - 1)
    IN  [buf |-> [k \in 1..fileSize |->
                     IF k > 54 /\ k - 54 <= Len(stored) THEN stored[k - 54]
                     ELSE headed[k]],
         offset |-> 54 + Len(stored)]

createBMP(img) == encodeBMP(img).buf

(***************************************************************************)
(* The images createBMP is run on: every width and height up to the        *)
(* bounds, with exactly width * height pixels (what parseHexFile returns), *)
(* pixel i taking the colour Palette[(start + i * step) mod n].            *)
(***************************************************************************)
MaxWidth == 5

MaxHeight == 3

\* 0x0000, 0xF800, 0x07E0, 0x001F, 0xFFFF, 0x1234, 0xABCD
Palette == <<0, 63488, 2016, 31, 65535, 4660, 43981>>

patternData(n, start, step) ==
    [i \in 1..n |-> Palette[((start + (i - 1) * step) % Len(Palette)) + 1]]

Images ==
    {[width |-> w, height |-> h, data |-> patternData(w * h, s, d), name |-> "img"] :
        w \in 1..MaxWidth, h \in 1..MaxHeight,
        s \in 0..(Len(Palette) - 1), d \in 0..(Len(Palette) - 1)}

InitBmp ==
    /\ image \in Images
    /\ bmp = Null
    /\ cursor = NoNumber

Encode ==
    /\ bmp = Null
    /\ image # Null
    /\ LET r == encodeBMP(image)
       IN  /\ bmp' = r.buf
           /\ cursor' = r.offset
    /\ UNCHANGED <<image, colorVars, dimVars, parseVars, uiVars>>


(***************************************************************************)
(* parseHexFile (lines 30-147).  The text is a string and a position p is  *)
(* the index (from 1) of the next character to read; Len(s) + 1 is the     *)
(* end.  The regular expressions of the code are matched as the engine     *)
(* matches them: none of them gains anything by backtracking, since the    *)
(* character classes that follow one another in them are disjoint.         *)
(***************************************************************************)
CharsOf(str) == {SubSeq(str, i, i) : i \in 1..Len(str)}

\* White space that has no escape in a string: U+000B, U+00A0, U+1680 and
\* U+FEFF, each written as the character itself between the quotes.
VerticalTab  == ""
NoBreakSpace == " "
OghamSpace   == " "
ByteOrderMark == "﻿"

\* \s: space, \t, \n, \r, \f, U+000B, U+00A0, U+1680 and U+FEFF.  The other
\* characters of \s (U+2000 to U+200A, U+2028, U+2029, U+202F, U+205F and
\* U+3000) cannot be written in a string of this module, so no text here
\* holds one.
SpaceChars ==
    {" ", "\t", "\n", "\r", "\f", VerticalTab, NoBreakSpace, OghamSpace,
     ByteOrderMark}

\* \w
WordChars == CharsOf("abcdefghijklmnopqrstuvwxyzABCDEFGHIJKLMNOPQRSTUVWXYZ0123456789_")

\* \d
DigitChars == CharsOf("0123456789")

\* [0-9a-fA-F]
HexChars == CharsOf("0123456789abcdefABCDEF")

\* [,\s\n\r], the separators of line 82
SplitChars == SpaceChars \cup {","}

charAt(s, p) == IF p >= 1 /\ p <= Len(s) THEN SubSeq(s, p, p) ELSE ""

startsWith(s, p, lit) ==
    /\ p >= 1
    /\ p + Len(lit) - 1 <= Len(s)
    /\ SubSeq(s, p, p + Len(lit) - 1) = lit

\* The position after the longest run of characters of `set` from p on.
skipSet(s, p, set) ==
    CHOOSE q \in p..(Len(s) + 1) :
        /\ q = Len(s) + 1 \/ charAt(s, q) \notin set
        /\ \A k \in p..(q - 1) : charAt(s, k) \in set

\* The position of the first character c from p on, Len(s) + 1 if none.
skipUntil(s, p, c) ==
    CHOOSE q \in p..(Len(s) + 1) :
        /\ q = Len(s) + 1 \/ charAt(s, q) = c
        /\ \A k \in p..(q - 1) : charAt(s, k) # c

\* Line 35, tried at position p:
\* /(?:const\s+)?uint16_t\s+(\w+)\s*\[\s*(?:\d+)?\s*\]\s*=\s*\{([^}]+)\}/
matchDeclarationAt(s, p) ==
    LET afterConst == skipSet(s, p + 5, SpaceChars)
        t  == IF startsWith(s, p, "const") /\ afterConst > p + 5 THEN afterConst ELSE p
        n0 == skipSet(s, t + 8, SpaceChars)
        n1 == skipSet(s, n0, WordChars)
        b0 == skipSet(s, n1, SpaceChars)
        d0 == skipSet(s, b0 + 1, SpaceChars)
        d1 == skipSet(s, d0, DigitChars)
        b1 == skipSet(s, d1, SpaceChars)
        e0 == skipSet(s, b1 + 1, SpaceChars)
        o0 == skipSet(s, e0 + 1, SpaceChars)
        c0 == skipUntil(s, o0 + 1, "}")
    IN  IF /\ startsWith(s, t, "uint16_t")
           /\ n0 > t + 8
           /\ n1 > n0
           /\ charAt(s, b0) = "["
           /\ charAt(s, b1) = "]"
           /\ charAt(s, e0) = "="
           /\ charAt(s, o0) = "{"
           /\ c0 > o0 + 1
           /\ c0 <= Len(s)
        THEN [ok |-> TRUE, name |-> SubSeq(s, n0, n1 - 1),
              body |-> SubSeq(s, o0 + 1, c0 - 1)]
        ELSE [ok |-> FALSE]

\* content.match(<line 35>): the leftmost match, [ok |-> FALSE] when none.
arrayMatch(s) ==
    LET starts == {p \in 1..Len(s) : matchDeclarationAt(s, p).ok}
    IN  IF starts = {} THEN [ok |-> FALSE]
        ELSE matchDeclarationAt(s, CHOOSE p \in starts : \A q \in starts : p <= q)

\* content.replace(/\n/g, ' ').replace(/\r/g, ' ')
RECURSIVE singleLine(_)
singleLine(s) ==
    IF Len(s) = 0 THEN ""
    ELSE IF Len(s) = 1 THEN (IF s = "\n" \/ s = "\r" THEN " " ELSE s)
    ELSE LET half == Len(s) \div 2
         IN  singleLine(SubSeq(s, 1, half)) \o singleLine(SubSeq(s, half + 1, Len(s)))

\* 0x[0-9a-fA-F] at position q; with the i flag 0X too.
hexTokenAt(s, q, ignoreCase) ==
    /\ startsWith(s, q, "0x") \/ (ignoreCase /\ startsWith(s, q, "0X"))
    /\ charAt(s, q + 2) \in HexChars

\* The end of the token at q: all the hex digits (+), or at most maxDigits
\* of them ({1,maxDigits}) when maxDigits > 0.
hexTokenEnd(s, q, maxDigits) ==
    LET run == skipSet(s, q + 2, HexChars)
    IN  IF maxDigits > 0 /\ run > q + 2 + maxDigits THEN q + 2 + maxDigits ELSE run

\* Line 47, on the single-line text:
\* /\{([^}]*(?:0x[0-9a-fA-F]+[^}]*)+)\}/ from a '{' at p: the text up to the
\* next '}', which must hold a 0x token.
matchBraceBlockAt(s, p) ==
    LET c0   == skipUntil(s, p + 1, "}")
        body == SubSeq(s, p + 1, c0 - 1)
    IN  IF /\ charAt(s, p) = "{"
           /\ c0 <= Len(s)
           /\ \E q \in 1..Len(body) : hexTokenAt(body, q, FALSE)
        THEN [ok |-> TRUE, body |-> body]
        ELSE [ok |-> FALSE]

fallbackMatch(s) ==
    LET starts == {p \in 1..Len(s) : matchBraceBlockAt(s, p).ok}
    IN  IF starts = {} THEN [ok |-> FALSE]
        ELSE matchBraceBlockAt(s, CHOOSE p \in starts : \A q \in starts : p <= q)

\* s.match(/0x[0-9a-fA-F]+/g) (lines 53-54: ignoreCase FALSE, maxDigits 0) and
\* s.match(/0x[0-9a-fA-F]{1,4}/gi) (lines 68-69: TRUE, 4), from p on: the
\* matches left to right, each search resuming where the last match ended.
RECURSIVE matchAllHex(_, _, _, _)
matchAllHex(s, p, ignoreCase, maxDigits) ==
    LET starts == {q \in p..Len(s) : hexTokenAt(s, q, ignoreCase)}
    IN  IF starts = {} THEN <<>>
        ELSE LET q == CHOOSE a \in starts : \A b \in starts : a <= b
                 e == hexTokenEnd(s, q, maxDigits)
             IN  <<SubSeq(s, q, e - 1)>> \o matchAllHex(s, e, ignoreCase, maxDigits)

\* allHexMatches.join(', ')
RECURSIVE joinCommaSpace(_)
joinCommaSpace(toks) ==
    IF Len(toks) = 0 THEN ""
    ELSE IF Len(toks) = 1 THEN toks[1]
    ELSE toks[1] \o ", " \o joinCommaSpace(Tail(toks))

\* Lines 33-62: the tier that matched (0: none, the function throws), the
\* array name and the text searched for values.
extractBlockLooseFirst(text) ==
    LET all == matchAllHex(text, 1, FALSE, 0)
        am  == arrayMatch(text)
    IN  IF Len(all) > 0
        THEN [tier |-> 3, name |-> "extracted_hex_values", block |-> joinCommaSpace(all)]
        ELSE IF am.ok THEN [tier |-> 1, name |-> am.name, block |-> am.body]
        ELSE [tier |-> 0]

extractBlock(text) ==
    LET am  == arrayMatch(text)
        fm  == fallbackMatch(singleLine(text))
        all == matchAllHex(text, 1, FALSE, 0)
    IN  IF am.ok THEN [tier |-> 1, name |-> am.name, block |-> am.body]
        ELSE IF fm.ok THEN [tier |-> 2, name |-> "parsed_array", block |-> fm.body]
        ELSE IF Len(all) > 0
        THEN [tier |-> 3, name |-> "extracted_hex_values", block |-> joinCommaSpace(all)]
        ELSE [tier |-> 0]

\* The value of one hex digit.
hexDigitValue(c) ==
    (CHOOSE i \in 1..16 :
        charAt("0123456789abcdef", i) = c \/ charAt("0123456789ABCDEF", i) = c) - 1

\* The number a string of hex digits denotes.
RECURSIVE hexNumber(_)
hexNumber(digits) ==
    IF Len(digits) = 0 THEN 0
    ELSE hexNumber(SubSeq(digits, 1, Len(digits) - 1)) * 16
         + hexDigitValue(charAt(digits, Len(digits)))

\* parseInt(str, 16) of a string that is 0x or 0X and then hex digits.
parseInt16(str) == hexNumber(SubSeq(str, 3, Len(str)))

\* Lines 71-76 from match i on: the values within 0..0xFFFF, in order.
RECURSIVE directValues(_, _)
directValues(toks, i) ==
    IF i > Len(toks) THEN <<>>
    ELSE LET hexVal == parseInt16(toks[i])
         IN  (IF hexVal >= 0 /\ hexVal <= MaxRgb565 THEN <<hexVal>> ELSE <<>>)
             \o directValues(toks, i + 1)

\* val.replace(/[^0-9a-fA-F]/g, '')
RECURSIVE cleanVal(_)
cleanVal(val) ==
    IF Len(val) = 0 THEN ""
    ELSE IF Len(val) = 1 THEN (IF val \in HexChars THEN val ELSE "")
    ELSE LET half == Len(val) \div 2
         IN  cleanVal(SubSeq(val, 1, half)) \o cleanVal(SubSeq(val, half + 1, Len(val)))

\* Lines 81-95 from position p on: the text split at runs of separators, the
\* empty pieces dropped; a piece of 3 or 4 hex digits once cleaned gives a
\* value.
RECURSIVE cleanedValues(_, _)
cleanedValues(s, p) ==
    LET b == skipSet(s, p, SplitChars)
        z == CHOOSE q \in b..(Len(s) + 1) :
                 /\ q = Len(s) + 1 \/ charAt(s, q) \in SplitChars
                 /\ \A k \in b..(q - 1) : charAt(s, k) \notin SplitChars
        c == cleanVal(SubSeq(s, b, z - 1))
    IN  IF b > Len(s) THEN <<>>
        ELSE (IF Len(c) >= 3 /\ Len(c) <= 4 THEN <<hexNumber(c)>> ELSE <<>>)
             \o cleanedValues(s, z)

\* Lines 64-96: hexValues.
hexValuesOf(block) ==
    LET direct == directValues(matchAllHex(block, 1, TRUE, 4), 1)
    IN  IF Len(direct) > 0 THEN direct ELSE cleanedValues(block, 1)

NoHexValuesFound ==
    "No hex values found in the file. Please ensure the file contains hex values in format 0xXXXX"

NoValidHexValues ==
    "No valid hex values found. Expected format: 0xXXXX where XXXX is 1-4 hexadecimal digits"

\* parseHexFile on the text of the file: the ImageData returned, or the
\* message of the Error thrown.
parseHexFile(text) ==
    LET ex == extractBlock(text)
    IN  IF ex.tier = 0 THEN [ok |-> FALSE, message |-> NoHexValuesFound]
        ELSE LET hexValues == hexValuesOf(ex.block)
                 d         == resolveDimensions(Len(hexValues))
             IN  IF Len(hexValues) = 0
                 THEN [ok |-> FALSE, message |-> NoValidHexValues]
                 ELSE [ok |-> TRUE, width |-> d.width, height |-> d.height,
                       data |-> hexValues, name |-> ex.name]

(***************************************************************************)
(* The texts parseHexFile is run on: up to MaxPieces fragments of C source *)
(* joined by line breaks.  A fragment records, apart from its text,        *)
(* whether it is a declaration of the form                                 *)
(*   [const] uint16_t <identifier>[<optional size>] = { <values> }         *)
(* and then the identifier and the values written between its braces.      *)
(* declEmpty (nothing at all between the braces) and declProgmem (a word   *)
(* between the brackets and the = sign) are not of that form.              *)
(***************************************************************************)
Fragments ==
    [ declFoo |->
        [text |-> "const uint16_t foo[] = {0xF800, 0x07E0, 0x001F, 0xFFFF};",
         decl |-> TRUE, name |-> "foo", values |-> <<63488, 2016, 31, 65535>>],
      declBar |->
        [text |-> "uint16_t bar_2 [ 3 ]\n=\n{ 0x1, 0X22,\r\n0x333 };",
         decl |-> TRUE, name |-> "bar_2", values |-> <<1, 34, 819>>],
      declBare |->
        [text |-> "static uint16_t" \o NoBreakSpace \o "raw[2] = { F800"
                      \o VerticalTab \o "07E0 };",
         decl |-> TRUE, name |-> "raw", values |-> <<63488, 2016>>],
      declNoValues |->
        [text |-> "uint16_t none[1] = { 0 };",
         decl |-> TRUE, name |-> "none", values |-> <<>>],
      declEmpty |->
        [text |-> "uint16_t e[] = {};",
         decl |-> FALSE, name |-> "", values |-> <<>>],
      declProgmem |->
        [text |-> "const uint16_t img[] PROGMEM = { 0x0001 };",
         decl |-> FALSE, name |-> "", values |-> <<>>],
      looseHex |->
        [text |-> "int mask = 0xAAAA; // 0xBBBB",
         decl |-> FALSE, name |-> "", values |-> <<>>],
      braceBlock |->
        [text |-> "short tbl[] = { 0x1234, 0x5678 };",
         decl |-> FALSE, name |-> "", values |-> <<>>],
      comment |->
        [text |-> "/* image data */",
         decl |-> FALSE, name |-> "", values |-> <<>>] ]

FragmentNames == DOMAIN Fragments

MaxPieces == 3

Layouts == UNION {[1..n -> FragmentNames] : n \in 1..MaxPieces}

\* The fragments of a layout, one to a line.
RECURSIVE textOf(_)
textOf(layout) ==
    IF Len(layout) = 0 THEN ""
    ELSE IF Len(layout) = 1 THEN Fragments[layout[1]].text
    ELSE Fragments[layout[1]].text \o "\n" \o textOf(Tail(layout))

InitParse ==
    /\ pieces \in Layouts
    /\ content = textOf(pieces)
    /\ parsed = Null

Parse ==
    /\ parsed = Null
    /\ pieces # Null
    /\ parsed' = parseHexFile(content)
    /\ UNCHANGED <<pieces, content, colorVars, dimVars, bmpVars, uiVars>>

(***************************************************************************)
(* The component (lines 11-28, 241-363).  A step is one event handler, or  *)
(* the part of an async function between two awaits: JavaScript runs each  *)
(* to completion, and the state updates it makes are rendered before the   *)
(* next event is handled.  The file input (lines 367-374) is enabled at    *)
(* all times; the buttons are enabled as their `disabled` says.            *)
(*                                                                         *)
(* A file is its name and its text.  What the environment supplies - the   *)
(* files the user picks, whether a read or a fetch succeeds, the text      *)
(* served as ./galaxy-spiral.h - is chosen from small sets.                *)
(***************************************************************************)
UserFiles ==
    { [name |-> "red.h",
       text |-> "const uint16_t red[] = {0xF800, 0xF800};"],
      [name |-> "flag.h",
       text |-> "// 2x2\nuint16_t flag[4] = {\n 0x0000, 0x001F,\n 0x07E0, 0xFFFF };"],
      [name |-> "notes.txt",
       text |-> "no pixel data in here"] }

\* What ./galaxy-spiral.h may be served as: a header, or a page without any
\* hex value.
ExampleTexts ==
    { "const uint16_t galaxy[] = {0x0001, 0x0002, 0x0003};",
      "<!doctype html><title>Not found</title>" }

\* The message of the error a rejected file.text() carries.
ReadErrorMessage == "The requested file could not be read"

\* The message of the TypeError a rejected fetch carries.
FetchErrorMessage == "Failed to fetch"

MaxAttempts == 3

\* The fetches of downloadExampleFile followed at one time.
MaxFetches == 2

\* line 303: the display array of the example
DisplayPixels == 57600

HostedPreview == "https://impressto.ca/hex_to_image/public/galaxy-spiral.png"

\* What parseHexFile returned, as the ImageData it is.
imageOf(r) == [width |-> r.width, height |-> r.height, data |-> r.data, name |-> r.name]

\* parseHexFile and createBMP are functions of the text alone: their
\* results on the texts of this model are computed once, when the model
\* starts, and looked up by the steps that call them.
KnownTexts == {f.text : f \in UserFiles} \cup ExampleTexts

InitTables ==
    /\ parseResults = [t \in KnownTexts |-> parseHexFile(t)]
    /\ bmpResults = [t \in {x \in KnownTexts : parseResults[x].ok} |->
                        createBMP(imageOf(parseResults[t]))]

\* An ImageData held in the component state has its data array written as
\* the leading values and the number of zeros that follow them.
asState(img) ==
    [width |-> img.width, height |-> img.height, name |-> img.name,
     data |-> [values |-> img.data, zeros |-> 0]]

\* createPreview (lines 218-239): what previewUrl holds after it.  With a
\* 2d context, the data URL of a canvas painted with the pixels of the image,
\* written as the name of the image painted; without one (getContext gave
\* null, line 224) the function returns and previewUrl is left as it was.
createPreview(img, hasContext) ==
    IF hasContext THEN "data:image/png;" \o img.name ELSE previewUrl

\* Lines 299-318: the example is displayed as 240 x 240, its data copied
\* into an array of 57600 zeros (at most 57600 of them).
displayDataOf(parsedData) ==
    LET copied == IF Len(parsedData.data) < DisplayPixels
                  THEN Len(parsedData.data) ELSE DisplayPixels
    IN  [width |-> 240, height |-> 240, name |-> parsedData.name,
         data |-> [values |-> SubSeq(parsedData.data, 1, copied),
                   zeros |-> DisplayPixels - copied]]

\* The async function returning without its finally block.
finishWithoutFinally ==
    /\ isProcessing' = isProcessing
    /\ task' = Null

\* The async function has returned: finally { setIsProcessing(false) }.
finish ==
    /\ isProcessing' = FALSE
    /\ task' = Null

\* The result of a conversion stored with the BMP left as it was.
storeResultWithoutBmp(displayData, url, bmpBytes) ==
    /\ imageData' = displayData
    /\ previewUrl' = url
    /\ shown' = [attempt |-> task.attempt, by |-> task.op, file |-> task.file,
                 selected |-> selectedFile]
    /\ UNCHANGED <<bmpData, built>>

\* Lines 249-254 and 320-333: setImageData, the preview, setBmpData of the
\* bytes of createBMP(parsedData).  `shown` and `built` record the conversion.
storeResult(displayData, url, bmpBytes) ==
    /\ imageData' = displayData
    /\ previewUrl' = url
    /\ bmpData' = bmpBytes
    /\ shown' = [attempt |-> task.attempt, by |-> task.op, file |-> task.file,
                 selected |-> selectedFile]
    /\ built' = [attempt |-> task.attempt, file |-> task.file]

\* handleFileSelect (lines 20-28) with a file chosen.
handleFileSelect ==
    \E file \in UserFiles :
        /\ selectedFile' = file
        /\ error' = ""
        /\ imageData' = Null
        /\ previewUrl' = ""
        /\ shown' = Null
        /\ UNCHANGED <<isProcessing, bmpData, task, exampleFetch, built, attempts,
                       downloaded>>
        /\ UNCHANGED <<colorVars, dimVars, bmpVars, parseVars, tables>>

\* processFile (lines 241-248) up to the await of file.text(); the button
\* is disabled without a file and while processing (line 404).
processFile ==
    /\ selectedFile # Null
    /\ ~isProcessing
    /\ attempts < MaxAttempts
    /\ isProcessing' = TRUE
    /\ error' = ""
    /\ attempts' = attempts + 1
    /\ task' = [op |-> "processFile", stage |-> "read", file |-> selectedFile,
                attempt |-> attempts + 1]
    /\ UNCHANGED <<selectedFile, imageData, previewUrl, bmpData, exampleFetch, shown,
                   built, downloaded>>
    /\ UNCHANGED <<colorVars, dimVars, bmpVars, parseVars, tables>>

\* processFile resumed with the text read and parsed (lines 248-254, 258).
processFileDone ==
    /\ task # Null /\ task.op = "processFile"
    /\ LET r == parseResults[task.file.text]
       IN  /\ r.ok
           /\ \E hasContext \in BOOLEAN :
                  storeResult(asState(imageOf(r)),
                              createPreview(imageOf(r), hasContext),
                              bmpResults[task.file.text])
    /\ finish
    /\ UNCHANGED <<selectedFile, error, exampleFetch, attempts, downloaded>>
    /\ UNCHANGED <<colorVars, dimVars, bmpVars, parseVars, tables>>

\* processFile resumed with parseHexFile throwing (lines 255-258).
processFileFailed ==
    /\ task # Null /\ task.op = "processFile"
    /\ LET r == parseResults[task.file.text]
       IN  /\ ~r.ok
           /\ error' = r.message
    /\ finish
    /\ UNCHANGED <<selectedFile, imageData, previewUrl, bmpData, exampleFetch, shown,
                   built, attempts, downloaded>>
    /\ UNCHANGED <<colorVars, dimVars, bmpVars, parseVars, tables>>

\* processFile resumed with file.text() rejected (lines 255-258).
processFileUnreadable ==
    /\ task # Null /\ task.op = "processFile"
    /\ error' = ReadErrorMessage
    /\ finish
    /\ UNCHANGED <<selectedFile, imageData, previewUrl, bmpData, exampleFetch, shown,
                   built, attempts, downloaded>>
    /\ UNCHANGED <<colorVars, dimVars, bmpVars, parseVars, tables>>

\* downloadBMP (lines 262-275); the button is rendered with the result
\* section (lines 418, 443).  `downloaded` records what the click delivered;
\* bytes of Null stand for the return of line 263, nothing delivered.
downloadBMP ==
    /\ imageData # Null
    /\ downloaded' = [bytes |-> bmpData, built |-> built, shown |-> shown]
    /\ UNCHANGED <<selectedFile, imageData, isProcessing, error, previewUrl, bmpData,
                   task, exampleFetch, shown, built, attempts>>
    /\ UNCHANGED <<colorVars, dimVars, bmpVars, parseVars, tables>>

\* loadExampleFile (lines 277-282) up to the await of fetch; the button is
\* disabled while processing (line 388).
loadExampleFile ==
    /\ ~isProcessing
    /\ attempts < MaxAttempts
    /\ isProcessing' = TRUE
    /\ error' = ""
    /\ attempts' = attempts + 1
    /\ task' = [op |-> "loadExampleFile", stage |-> "fetch", file |-> Null,
                attempt |-> attempts + 1]
    /\ UNCHANGED <<selectedFile, imageData, previewUrl, bmpData, exampleFetch, shown,
                   built, downloaded>>
    /\ UNCHANGED <<colorVars, dimVars, bmpVars, parseVars, tables>>

\* loadExampleFile resumed with fetch or response.text() rejected, or with
\* a response that is not ok (lines 283-285, 335-339).
loadExampleUnavailable ==
    /\ task # Null /\ task.op = "loadExampleFile" /\ task.stage = "fetch"
    /\ \E message \in {FetchErrorMessage, "Failed to load example file"} :
           error' = "Error loading example file: " \o message
    /\ finish
    /\ UNCHANGED <<selectedFile, imageData, previewUrl, bmpData, exampleFetch, shown,
                   built, attempts, downloaded>>
    /\ UNCHANGED <<colorVars, dimVars, bmpVars, parseVars, tables>>

\* loadExampleFile resumed with the text of the response (lines 287-294):
\* setSelectedFile(exampleFile), then the await of parseHexFile.
loadExampleFetched ==
    /\ task # Null /\ task.op = "loadExampleFile" /\ task.stage = "fetch"
    /\ \E text \in ExampleTexts :
           LET exampleFile == [name |-> "galaxy-spiral.h", text |-> text]
           IN  /\ selectedFile' = exampleFile
               /\ task' = [task EXCEPT !.stage = "parse", !.file = exampleFile]
    /\ UNCHANGED <<imageData, isProcessing, error, previewUrl, bmpData, exampleFetch,
                   shown, built, attempts, downloaded>>
    /\ UNCHANGED <<colorVars, dimVars, bmpVars, parseVars, tables>>

\* loadExampleFile resumed with the example parsed (lines 296-333, 338); the
\* file is always named galaxy-spiral.h, so isGalaxySpiral is true.
loadExampleDone ==
    /\ task # Null /\ task.op = "loadExampleFile" /\ task.stage = "parse"
    /\ LET r == parseResults[task.file.text]
       IN  /\ r.ok
           /\ storeResult(displayDataOf(imageOf(r)), HostedPreview,
                          bmpResults[task.file.text])
    /\ finish
    /\ UNCHANGED <<selectedFile, error, exampleFetch, attempts, downloaded>>
    /\ UNCHANGED <<colorVars, dimVars, bmpVars, parseVars, tables>>

\* loadExampleFile resumed with parseHexFile throwing (lines 335-339).
loadExampleFailed ==
    /\ task # Null /\ task.op = "loadExampleFile" /\ task.stage = "parse"
    /\ LET r == parseResults[task.file.text]
       IN  /\ ~r.ok
           /\ error' = "Error loading example file: " \o r.message
    /\ finish
    /\ UNCHANGED <<selectedFile, imageData, previewUrl, bmpData, exampleFetch, shown,
                   built, attempts, downloaded>>
    /\ UNCHANGED <<colorVars, dimVars, bmpVars, parseVars, tables>>

\* downloadExampleFile (lines 342-344) up to the await of fetch; its button
\* is never disabled, so a click may come while earlier fetches are pending.
downloadExampleFile ==
    /\ exampleFetch < MaxFetches
    /\ exampleFetch' = exampleFetch + 1
    /\ UNCHANGED <<selectedFile, imageData, isProcessing, error, previewUrl, bmpData,
                   task, shown, built, attempts, downloaded>>
    /\ UNCHANGED <<colorVars, dimVars, bmpVars, parseVars, tables>>

\* One downloadExampleFile resumed with the file fetched and handed to the
\* browser (lines 349-359): no state of the component changes.
downloadExampleDone ==
    /\ exampleFetch > 0
    /\ exampleFetch' = exampleFetch - 1
    /\ UNCHANGED <<selectedFile, imageData, isProcessing, error, previewUrl, bmpData,
                   task, shown, built, attempts, downloaded>>
    /\ UNCHANGED <<colorVars, dimVars, bmpVars, parseVars, tables>>

\* One downloadExampleFile resumed with its fetch failed (lines 345-347, 360-362).
downloadExampleFailed ==
    /\ exampleFetch > 0
    /\ exampleFetch' = exampleFetch - 1
    /\ \E message \in {FetchErrorMessage, "Failed to fetch example file"} :
           error' = "Error downloading example file: " \o message
    /\ UNCHANGED <<selectedFile, imageData, isProcessing, previewUrl, bmpData, task,
                   shown, built, attempts, downloaded>>
    /\ UNCHANGED <<colorVars, dimVars, bmpVars, parseVars, tables>>

(***************************************************************************)
(* Specifications.  Each runs one part of the program; the variables of    *)
(* the other parts stay at their idle values.                              *)
(***************************************************************************)
IdleColor == rgb565 = NoNumber /\ rgb = Null

IdleDim == totalPixels = NoNumber /\ dimension = Null /\ chosen = NoText

IdleBmp == image = Null /\ bmp = Null /\ cursor = NoNumber

IdleParse == pieces = Null /\ content = NoText /\ parsed = Null

IdleUi ==
    /\ selectedFile = Null
    /\ imageData = Null
    /\ isProcessing = FALSE
    /\ error = ""
    /\ previewUrl = ""
    /\ bmpData = Null
    /\ task = Null
    /\ exampleFetch = 0
    /\ shown = Null
    /\ built = Null
    /\ attempts = 0
    /\ downloaded = Null
    /\ parseResults = Null
    /\ bmpResults = Null

NextColor == Convert

InitSpecColor == InitColor /\ IdleDim /\ IdleBmp /\ IdleParse /\ IdleUi

SpecColor == InitSpecColor /\ [][NextColor]_vars

NextResolve == Resolve

InitSpecResolve == InitResolve /\ IdleColor /\ IdleBmp /\ IdleParse /\ IdleUi

SpecResolve == InitSpecResolve /\ [][NextResolve]_vars

NextBmp == Encode

InitSpecBmp == InitBmp /\ IdleColor /\ IdleDim /\ IdleParse /\ IdleUi

SpecBmp == InitSpecBmp /\ [][NextBmp]_vars

NextParse == Parse

InitSpecParse == InitParse /\ IdleColor /\ IdleDim /\ IdleBmp /\ IdleUi

SpecParse == InitSpecParse /\ [][NextParse]_vars

\* The state after the component is constructed (lines 12-17).
InitUi ==
    /\ selectedFile = Null
    /\ imageData = Null
    /\ isProcessing = FALSE
    /\ error = ""
    /\ previewUrl = ""
    /\ bmpData = Null
    /\ task = Null
    /\ exampleFetch = 0
    /\ shown = Null
    /\ built = Null
    /\ attempts = 0
    /\ downloaded = Null
    /\ InitTables

Init == InitUi /\ IdleColor /\ IdleDim /\ IdleBmp /\ IdleParse

Next ==
    \/ handleFileSelect
    \/ processFile
    \/ processFileDone
    \/ processFileFailed
    \/ processFileUnreadable
    \/ downloadBMP
    \/ loadExampleFile
    \/ loadExampleUnavailable
    \/ loadExampleFetched
    \/ loadExampleDone
    \/ loadExampleFailed
    \/ downloadExampleFile
    \/ downloadExampleDone
    \/ downloadExampleFailed

Spec == Init /\ [][Next]_vars

\* The awaited promises settle: the file read of processFile, the fetch of
\* loadExampleFile and its parse each resume the async function, whose
\* continuation then runs to its next await or to its end.
readSettles  == processFileDone \/ processFileFailed \/ processFileUnreadable
fetchSettles == loadExampleUnavailable \/ loadExampleFetched
parseSettles == loadExampleDone \/ loadExampleFailed

FairSpec ==
    /\ Init /\ [][Next]_vars
    /\ WF_vars(readSettles)
    /\ WF_vars(fetchSettles)
    /\ WF_vars(parseSettles)

(***************************************************************************)
(* Claims about createBMP, under SpecBmp.                                  *)
(***************************************************************************)
\* C1: the buffer createBMP returns starts with the bytes 0x42 0x4D, 'B'
\* then 'M'.
C1_SignatureBM ==
    bmp # Null => bmp[1] = 66 /\ bmp[2] = 77

\* C6: the buffer is 54 + height * rowSize bytes long with rowSize a multiple
\* of 4; pixel (x, y) is read back at 54 + (height-1-y) * rowSize + 3 * x as
\* Blue, Green, Red of rgb565ToRgb(data[y * width + x]); every padding byte
\* is 0; the write cursor ends at the end of the buffer.
C6_RoundTrip ==
    bmp # Null =>
        LET w       == image.width
            h       == image.height
            rowSize == 3 * w + ((4 - ((3 * w) % 4)) % 4)
        IN  /\ Len(image.data) = w * h
            /\ rowSize % 4 = 0
            /\ Len(bmp) = 54 + h * rowSize
            /\ cursor = Len(bmp)
            /\ \A x \in 0..(w - 1), y \in 0..(h - 1) :
                   LET off == 54 + (h - 1 - y) * rowSize + 3 * x
                       c   == rgb565ToRgb(image.data[y * w + x + 1])
                   IN  /\ bmp[off + 1] = c[3]
                       /\ bmp[off + 2] = c[2]
                       /\ bmp[off + 3] = c[1]
            /\ \A r \in 0..(h - 1), p \in (3 * w)..(rowSize - 1) :
                   bmp[54 + r * rowSize + p + 1] = 0

\* A 3 x 2 image (3 padding bytes a row, two rows) with a red first pixel,
\* encoded.
C6_Witness ==
    /\ bmp # Null
    /\ image.width = 3
    /\ image.height = 2
    /\ image.data[1] = 63488
    /\ image.data[4] # image.data[1]

(***************************************************************************)
(* Claims about rgb565ToRgb, under SpecColor.                              *)
(***************************************************************************)
\* C2 as stated: 0xF800 -> (248,0,0), 0x07E0 -> (0,252,0),
\* 0x001F -> (0,0,248), 0xFFFF -> (255,255,255), 0x0000 -> (0,0,0).
C2_CanonicalAsStated ==
    rgb # Null =>
        /\ rgb565 = 63488 => rgb = <<248, 0, 0>>
        /\ rgb565 = 2016  => rgb = <<0, 252, 0>>
        /\ rgb565 = 31    => rgb = <<0, 0, 248>>
        /\ rgb565 = 65535 => rgb = <<255, 255, 255>>
        /\ rgb565 = 0     => rgb = <<0, 0, 0>>

\* C2 amended: 0xF800 -> (255,0,0), 0x07E0 -> (0,255,0),
\* 0x001F -> (0,0,255), 0xFFFF -> (255,255,255), 0x0000 -> (0,0,0), and
\* every component of every result is within 0..255.
C2_CanonicalValues ==
    rgb # Null =>
        /\ rgb565 = 63488 => rgb = <<255, 0, 0>>
        /\ rgb565 = 2016  => rgb = <<0, 255, 0>>
        /\ rgb565 = 31    => rgb = <<0, 0, 255>>
        /\ rgb565 = 65535 => rgb = <<255, 255, 255>>
        /\ rgb565 = 0     => rgb = <<0, 0, 0>>
        /\ \A k \in 1..3 : rgb[k] \in 0..255

\* Pure red converted.
C2_Witness ==
    rgb565 = 63488 /\ rgb = <<255, 0, 0>>

(***************************************************************************)
(* Claims about the dimension resolution, under SpecResolve.               *)
(***************************************************************************)
\* The first entry of commonResolutions whose product is n.
FirstListed(n) ==
    LET i == CHOOSE k \in 1..Len(commonResolutions) :
                 /\ commonResolutions[k].w * commonResolutions[k].h = n
                 /\ \A j \in 1..(k - 1) :
                        commonResolutions[j].w * commonResolutions[j].h # n
    IN  [width |-> commonResolutions[i].w, height |-> commonResolutions[i].h]

\* C3: a count that is the product of a table entry resolves to a table
\* entry, the first listed one when several match; 20480 resolves to
\* 128 x 160.
C3_FirstListedWins ==
    dimension # Null /\ totalPixels \in TableProducts =>
        /\ chosen = "table"
        /\ dimension = FirstListed(totalPixels)
        /\ totalPixels = 20480 => dimension = [width |-> 128, height |-> 160]

\* C5: for every count N >= 1 the resolver returns width >= 1 and
\* height >= 1 with width * height = N.
C5_ExactProduct ==
    dimension # Null =>
        /\ dimension.width \in Nat /\ dimension.width >= 1
        /\ dimension.height \in Nat /\ dimension.height >= 1
        /\ dimension.width * dimension.height = totalPixels

\* A count that matches the table, resolved.
C5_Witness ==
    dimension # Null /\ chosen = "table" /\ totalPixels = 6144

\* C8: a count that is no table product resolves to (sqrt N, sqrt N) when N
\* is a perfect square and to (N, 1) otherwise, through the square or the
\* single-row candidate; never to the single column (1, N) for N > 1, never
\* through the ceil(sqrt N) fallback pair.
C8_GenericPriority ==
    dimension # Null /\ totalPixels \notin TableProducts =>
        /\ IF \E s \in 1..totalPixels : s * s = totalPixels
           THEN /\ chosen = "square"
                /\ dimension.width = dimension.height
                /\ dimension.width * dimension.width = totalPixels
           ELSE /\ chosen = "row"
                /\ dimension = [width |-> totalPixels, height |-> 1]
        /\ chosen \notin {"column", "ceil", "forced"}
        /\ totalPixels > 1 => dimension # [width |-> 1, height |-> totalPixels]

\* A count that is neither a table product nor a square, resolved to one row.
C8_Witness ==
    /\ dimension = [width |-> 12, height |-> 1]
    /\ totalPixels = 12
    /\ chosen = "row"


(***************************************************************************)
(* Claims about the extraction tiers of parseHexFile, under SpecParse.     *)
(***************************************************************************)
DeclPieces == {i \in 1..Len(pieces) : Fragments[pieces[i]].decl}

FirstDecl == Fragments[pieces[CHOOSE i \in DeclPieces : \A j \in DeclPieces : i <= j]]

\* C7: when the text holds a declaration [const] uint16_t <identifier>
\* [<optional size>] = { ... }, the name of the ImageData is the declared
\* identifier (of the first such declaration) and its pixels are the values
\* between that declaration's braces, whatever loose 0x tokens or brace
\* blocks the text holds elsewhere (no ImageData at all when the braces hold
\* no value); the names 'parsed_array' and 'extracted_hex_values' appear
\* only when the text holds no such declaration.
C7_StrictDeclarationWins ==
    parsed # Null =>
        /\ DeclPieces # {} =>
              IF FirstDecl.values = <<>>
              THEN ~parsed.ok
              ELSE /\ parsed.ok
                   /\ parsed.name = FirstDecl.name
                   /\ parsed.data = FirstDecl.values
        /\ (parsed.ok /\ parsed.name \in {"parsed_array", "extracted_hex_values"})
              => DeclPieces = {}

\* A declaration with loose tokens before it and a brace block after it,
\* parsed.
C7_Witness ==
    /\ parsed # Null
    /\ pieces = <<"looseHex", "declFoo", "braceBlock">>
    /\ parsed.ok
    /\ parsed.name = "foo"
    /\ parsed.data = <<63488, 2016, 31, 65535>>

(***************************************************************************)
(* The component                                                           *)
(***************************************************************************)

\* The error was set by a conversion attempt (processFile or
\* loadExampleFile), not by downloadExampleFile.  Every attempt clears the
\* error when it starts, so a conversion error in the state is the outcome
\* of the last attempt completed.
conversionFailed ==
    /\ error # ""
    /\ ~startsWith(error, 1, "Error downloading example file")

\* C4: in a state where the last completed conversion attempt failed, the
\* component holds no imageData, no preview and no BMP bytes of an earlier
\* conversion.
C4_NoStaleResultAfterFailure ==
    conversionFailed => (imageData = Null /\ previewUrl = "" /\ bmpData = Null)

\* C9: the result a successful processFile stores was parsed from the file
\* that is the selectedFile at the moment it is stored.
C9_ResultOfSelectedFile ==
    (shown # Null /\ shown.by = "processFile") => shown.file = shown.selected

\* C10: whenever imageData is set (the download button is rendered), bmpData
\* is set too, by the same conversion, and is the createBMP encoding of the
\* pixels parsed from that conversion's file; a click on the button delivers
\* those bytes, never nothing and never the bytes of another conversion.
C10_DownloadMatchesDisplay ==
    /\ imageData # Null =>
          /\ bmpData # Null
          /\ shown # Null /\ built # Null
          /\ built.attempt = shown.attempt
          /\ built.file = shown.file
          /\ parseResults[shown.file.text].ok
          /\ bmpData = bmpResults[shown.file.text]
          /\ imageData.name = parseResults[shown.file.text].name
          /\ imageData.data.values =
                 SubSeq(parseResults[shown.file.text].data, 1,
                        Len(imageData.data.values))
    /\ downloaded # Null =>
          /\ downloaded.bytes # Null
          /\ Len(downloaded.bytes) >= 54
          /\ downloaded.built.attempt = downloaded.shown.attempt
          /\ downloaded.bytes = bmpResults[downloaded.shown.file.text]

\* A second or later conversion is displayed and the click on the button
\* delivered its BMP.
C10_Witness ==
    /\ imageData # Null
    /\ shown.attempt >= 2
    /\ downloaded # Null
    /\ downloaded.shown = shown
    /\ downloaded.bytes = bmpData
    /\ bmpData = bmpResults[selectedFile.text]

\* C11: every conversion attempt that is started (isProcessing set by
\* processFile or loadExampleFile) ends with isProcessing reset to false,
\* whatever its outcome, when the awaited read, fetch and parse settle; and
\* isProcessing is set exactly while an attempt is in flight.
C11_ProcessingEnds ==
    /\ [](isProcessing <=> task # Null)
    /\ \A n \in 1..MaxAttempts :
           (isProcessing /\ task # Null /\ task.attempt = n)
               ~> (~isProcessing /\ attempts >= n)

\* A second or later attempt has ended in failure with the buttons enabled
\* again.
C11_Witness ==
    /\ attempts >= 2
    /\ ~isProcessing
    /\ task = Null
    /\ conversionFailed

=============================================================================
